---- MODULE Spec2Model ----
(***************************************************************************)
(* Country service: the Express request handlers of src/api/index.js and   *)
(* of the two older copies of the application kept in src/unnamed/part_002.*)
(*                                                                         *)
(* A JavaScript string is a sequence of one-character strings, so that     *)
(* trim, toLowerCase, split, replaceAll and startsWith are computed        *)
(* character by character.  A query value is a tagged record: the          *)
(* parameter is absent (undefined), a string, or an object (Express yields *)
(* an array when a parameter is repeated).                                 *)
(***************************************************************************)
EXTENDS Naturals, Sequences, FiniteSets

VARIABLES req, res, loc

vars == <<req, res, loc>>

(***************************************************************************)
(* Bounds of the model.                                                    *)
(***************************************************************************)
\* most comma-separated segments in a validkeys / notallowedkeys value
MaxSegs == 2
\* longest enumerated raw phone-number string
MaxNumLen == 2
\* most entries in an enumerated multi-entry allowednumbers value
MaxNums == 2

(***************************************************************************)
(* JavaScript values and string primitives.                                *)
(***************************************************************************)
Undefined == [t |-> "undefined", v |-> <<>>]
Null == [t |-> "null", v |-> <<>>]
Arr == [t |-> "object", v |-> <<>>]
Str(s) == [t |-> "string", v |-> s]

\* !x for a query value: undefined and "" are falsy, an array is truthy
Truthy(x) == x.t = "object" \/ (x.t = "string" /\ x.v # <<>>)

WhiteSpace == {" ", "\t", "\n"}

RECURSIVE TrimStart(_)
TrimStart(s) ==
    IF s # <<>> /\ Head(s) \in WhiteSpace THEN TrimStart(Tail(s)) ELSE s

RECURSIVE TrimEnd(_)
TrimEnd(s) ==
    IF s # <<>> /\ s[Len(s)] \in WhiteSpace
    THEN TrimEnd(SubSeq(s, 1, Len(s) - 1))
    ELSE s

\* String.prototype.trim
Trim(s) == TrimEnd(TrimStart(s))

LowerChar(c) ==
    CASE c = "A" -> "a"
      [] c = "C" -> "c"
      [] c = "K" -> "k"
      [] c = "P" -> "p"
      [] c = "S" -> "s"
      [] c = "U" -> "u"
      [] c = "X" -> "x"
      [] OTHER -> c

\* String.prototype.toLowerCase
RECURSIVE ToLowerCase(_)
ToLowerCase(s) ==
    IF s = <<>> THEN <<>> ELSE <<LowerChar(Head(s))>> \o ToLowerCase(Tail(s))

\* String.prototype.split(","): "" splits into one empty segment
RECURSIVE SplitFrom(_, _)
SplitFrom(s, cur) ==
    IF s = <<>> THEN <<cur>>
    ELSE IF Head(s) = "," THEN <<cur>> \o SplitFrom(Tail(s), <<>>)
    ELSE SplitFrom(Tail(s), Append(cur, Head(s)))

Split(s) == SplitFrom(s, <<>>)

\* String.prototype.startsWith
StartsWith(s, p) == Len(s) >= Len(p) /\ SubSeq(s, 1, Len(p)) = p

\* Array.prototype.includes
Includes(arr, x) == \E i \in 1..Len(arr) : arr[i] = x

(***************************************************************************)
(* String literals of the source.                                          *)
(***************************************************************************)
\* "Missing required field: input"
MissingInput ==
    <<"M", "i", "s", "s", "i", "n", "g", " ", "r", "e", "q", "u", "i",
      "r", "e", "d", " ", "f", "i", "e", "l", "d", ":", " ", "i", "n",
      "p", "u", "t">>

\* "At least one of validkeys or notallowedkeys is required"
MissingKeys ==
    <<"A", "t", " ", "l", "e", "a", "s", "t", " ", "o", "n", "e", " ",
      "o", "f", " ", "v", "a", "l", "i", "d", "k", "e", "y", "s", " ",
      "o", "r", " ", "n", "o", "t", "a", "l", "l", "o", "w", "e", "d",
      "k", "e", "y", "s", " ", "i", "s", " ", "r", "e", "q", "u", "i",
      "r", "e", "d">>

\* "Invalid input: empty after normalization"
EmptyAfterNormalization ==
    <<"I", "n", "v", "a", "l", "i", "d", " ", "i", "n", "p", "u", "t",
      ":", " ", "e", "m", "p", "t", "y", " ", "a", "f", "t", "e", "r",
      " ", "n", "o", "r", "m", "a", "l", "i", "z", "a", "t", "i", "o",
      "n">>

\* "Missing required field: allowednumbers"
MissingAllowedNumbers ==
    <<"M", "i", "s", "s", "i", "n", "g", " ", "r", "e", "q", "u", "i",
      "r", "e", "d", " ", "f", "i", "e", "l", "d", ":", " ", "a", "l",
      "l", "o", "w", "e", "d", "n", "u", "m", "b", "e", "r", "s">>

\* "No valid numbers in allowednumbers"
NoValidNumbers ==
    <<"N", "o", " ", "v", "a", "l", "i", "d", " ", "n", "u", "m", "b",
      "e", "r", "s", " ", "i", "n", " ", "a", "l", "l", "o", "w", "e",
      "d", "n", "u", "m", "b", "e", "r", "s">>

\* "Missing required fields: input or validkeys"
MissingInputOrValidKeys ==
    <<"M", "i", "s", "s", "i", "n", "g", " ", "r", "e", "q", "u", "i",
      "r", "e", "d", " ", "f", "i", "e", "l", "d", "s", ":", " ", "i",
      "n", "p", "u", "t", " ", "o", "r", " ", "v", "a", "l", "i", "d",
      "k", "e", "y", "s">>

\* "Service is running"
ServiceIsRunning ==
    <<"S", "e", "r", "v", "i", "c", "e", " ", "i", "s", " ", "r", "u",
      "n", "n", "i", "n", "g">>

\* "Country Service API"
CountryServiceAPI ==
    <<"C", "o", "u", "n", "t", "r", "y", " ", "S", "e", "r", "v", "i",
      "c", "e", " ", "A", "P", "I">>

\* "garbage"
Garbage ==
    <<"g", "a", "r", "b", "a", "g", "e">>

\* "not_@llowed" (src/api/index.js)
BlockedMarker ==
    <<"n", "o", "t", "_", "@", "l", "l", "o", "w", "e", "d">>

\* "not_allowed" (src/unnamed/part_002, first application)
BlockedMarkerCopy ==
    <<"n", "o", "t", "_", "a", "l", "l", "o", "w", "e", "d">>

\* "@llowed"
AllowedMarker ==
    <<"@", "l", "l", "o", "w", "e", "d">>

\* "whatsapp:"
WhatsappPrefix ==
    <<"w", "h", "a", "t", "s", "a", "p", "p", ":">>

\* "+1 (415) 555-0100"
FormattedUsNumber ==
    <<"+", "1", " ", "(", "4", "1", "5", ")", " ", "5", "5", "5", "-",
      "0", "1", "0", "0">>

\* "14155550100"
PlainUsNumber ==
    <<"1", "4", "1", "5", "5", "5", "5", "0", "1", "0", "0">>

\* "+923001234567"
PlainPkNumber ==
    <<"+", "9", "2", "3", "0", "0", "1", "2", "3", "4", "5", "6", "7">>

(***************************************************************************)
(* libphonenumber-js.  The library is an external collaborator: what it    *)
(* answers for a number is an input of the request (req.lib), except that  *)
(* a string without a digit is never parsed.  country is the upper-case    *)
(* region code, or undefined for a number without a region.                *)
(***************************************************************************)
Digits == {"0", "1", "2", "3", "4", "5", "6", "7", "8", "9"}

HasDigit(s) == \E i \in 1..Len(s) : s[i] \in Digits

NotParsed == [parsed |-> FALSE, valid |-> FALSE, country |-> Undefined]

PhoneNumber(valid, country) ==
    [parsed |-> TRUE, valid |-> valid, country |-> country]

\* parsePhoneNumberFromString(rawNumber): undefined when nothing is parsed
parsePhoneNumberFromString(rawNumber, lib) ==
    IF HasDigit(rawNumber) THEN lib ELSE NotParsed

\* ResolveCountry without toLowerCase: the region code stays upper case
ResolveCountryNoLowerCase(rawNumber, lib) ==
    LET phone == parsePhoneNumberFromString(rawNumber, lib)
    IN  IF phone.parsed /\ phone.valid /\ phone.country.t = "string"
           /\ phone.country.v # <<>>
        THEN Str(phone.country.v)
        ELSE Null

\* try { phone = parsePhoneNumberFromString(rawNumber);
\*       if (phone?.isValid()) country = phone.country?.toLowerCase() || null }
ResolveCountry(rawNumber, lib) ==
    LET phone == parsePhoneNumberFromString(rawNumber, lib)
    IN  IF phone.parsed /\ phone.valid /\ phone.country.t = "string"
           /\ phone.country.v # <<>>
        THEN Str(ToLowerCase(phone.country.v))
        ELSE Null

\* the older handler: parsePhoneNumber throws when nothing is parsed, the
\* handler throws itself when the number is not valid, and the catch sets
\* null; a valid number without a region leaves country undefined
ResolveCountryLegacy(rawNumber, lib) ==
    LET phone == parsePhoneNumberFromString(rawNumber, lib)
    IN  IF ~phone.parsed \/ ~phone.valid THEN Null
        ELSE IF phone.country.t = "string"
        THEN Str(ToLowerCase(phone.country.v))
        ELSE Undefined

(***************************************************************************)
(* What a handler leaves behind: the response, and the values of its       *)
(* locals with the steps of its logic that ran.                            *)
(***************************************************************************)
NoLoc ==
    [defaultkey |-> Undefined, rawNumber |-> <<>>, country |-> Null,
     notAllowedArray |-> <<>>, validKeysArray |-> <<>>, branch |-> "none",
     inputNormalized |-> Null, allowedArray |-> <<>>, isAllowed |-> FALSE,
     steps |-> {}]

\* res.status(status).json({code, result: [{message}]})
Json(status, message, l) ==
    [res |-> [status |-> status, sent |-> 1, message |-> message], loc |-> l]

\* an exception leaves the handler: Express's default error handler answers
\* 500 with no result message
Thrown(l) ==
    [res |-> [status |-> 500, sent |-> 1, message |-> <<>>], loc |-> l]

(***************************************************************************)
(* GET /resolve/user/input (src/api/index.js and the first application of  *)
(* src/unnamed/part_002, which differ in the blocked marker only).         *)
(***************************************************************************)
\* NormalizeDefaultKey without trim (as the older handler does)
NormalizeDefaultKeyNoTrim(defaultkey, fallback) ==
    IF defaultkey.t = "string" /\ ToLowerCase(defaultkey.v) # <<>>
    THEN ToLowerCase(defaultkey.v)
    ELSE fallback

\* defaultkey?.trim().toLowerCase() || fallback, for undefined or a string
NormalizeDefaultKey(defaultkey, fallback) ==
    IF defaultkey.t = "string" /\ ToLowerCase(Trim(defaultkey.v)) # <<>>
    THEN ToLowerCase(Trim(defaultkey.v))
    ELSE fallback

\* .map((k) => k.trim().toLowerCase())
RECURSIVE TrimLowerEach(_)
TrimLowerEach(a) ==
    IF a = <<>> THEN <<>>
    ELSE <<ToLowerCase(Trim(Head(a)))>> \o TrimLowerEach(Tail(a))

\* .filter((k) => k.length > 0)
RECURSIVE DropEmpty(_)
DropEmpty(a) ==
    IF a = <<>> THEN <<>>
    ELSE IF Len(Head(a)) > 0 THEN <<Head(a)>> \o DropEmpty(Tail(a))
    ELSE DropEmpty(Tail(a))

parseKeys(keys) ==
    IF ~Truthy(keys) \/ keys.t # "string" THEN <<>>
    ELSE DropEmpty(TrimLowerEach(Split(keys.v)))

\* ResolveKey with the two tests exchanged: the allowed list is consulted
\* before the deny list
ResolveKeyAllowFirst(country, notAllowedArray, validKeysArray, defaultkey, blocked) ==
    IF Truthy(country) /\ Includes(validKeysArray, country.v)
    THEN [branch |-> "allowed", key |-> country.v]
    ELSE IF Truthy(country) /\ Includes(notAllowedArray, country.v)
    THEN [branch |-> "blocked", key |-> blocked]
    ELSE [branch |-> "default", key |-> defaultkey]

\* the priority chain of the handler: blocked, then allowed, then default
ResolveKey(country, notAllowedArray, validKeysArray, defaultkey, blocked) ==
    IF Truthy(country) /\ Includes(notAllowedArray, country.v)
    THEN [branch |-> "blocked", key |-> blocked]
    ELSE IF Truthy(country) /\ Includes(validKeysArray, country.v)
    THEN [branch |-> "allowed", key |-> country.v]
    ELSE [branch |-> "default", key |-> defaultkey]

UserInputHandler(q, lib, blocked) ==
    IF q.defaultkey.t = "object" THEN Thrown(NoLoc)
    ELSE
    LET defaultkey == NormalizeDefaultKey(q.defaultkey, Garbage)
        l0 == [NoLoc EXCEPT !.defaultkey = Str(defaultkey)]
    IN  IF ~Truthy(q.input) \/ q.input.t # "string" \/ Trim(q.input.v) = <<>>
        THEN Json(400, MissingInput, l0)
        ELSE IF ~Truthy(q.validkeys) /\ ~Truthy(q.notallowedkeys)
        THEN Json(400, MissingKeys, l0)
        ELSE IF Trim(q.input.v) = <<>>
        THEN Json(400, EmptyAfterNormalization, l0)
        ELSE
        LET trimmed == Trim(q.input.v)
            rawNumber == IF StartsWith(trimmed, <<"+">>) THEN trimmed
                         ELSE <<"+">> \o trimmed
            country == ResolveCountry(rawNumber, lib)
            notAllowedArray == parseKeys(q.notallowedkeys)
            validKeysArray == parseKeys(q.validkeys)
            resolved == ResolveKey(country, notAllowedArray, validKeysArray,
                                   defaultkey, blocked)
        IN  Json(200, resolved.key,
                 [l0 EXCEPT !.rawNumber = rawNumber,
                            !.country = country,
                            !.notAllowedArray = notAllowedArray,
                            !.validKeysArray = validKeysArray,
                            !.branch = resolved.branch,
                            !.steps = {"parsePhoneNumber", "parseKeys",
                                       "resolveKey"}])

(***************************************************************************)
(* GET /resolve/user/input, the older application of src/unnamed/part_002: *)
(* no deny list, a "whatsapp:" prefix is removed, keys are not trimmed.    *)
(***************************************************************************)
\* String.prototype.replace(pattern, "") with a string pattern: the first
\* occurrence only
RECURSIVE ReplaceFirst(_, _)
ReplaceFirst(s, p) ==
    IF Len(s) < Len(p) THEN s
    ELSE IF StartsWith(s, p) THEN SubSeq(s, Len(p) + 1, Len(s))
    ELSE <<Head(s)>> \o ReplaceFirst(Tail(s), p)

\* defaultkey?.toLowerCase() || 'garbage', for undefined or a string
NormalizeDefaultKeyLegacy(defaultkey, fallback) ==
    IF defaultkey.t = "string" /\ defaultkey.v # <<>>
    THEN ToLowerCase(defaultkey.v)
    ELSE fallback

\* .map(k => k.toLowerCase())
RECURSIVE LowerEach(_)
LowerEach(a) ==
    IF a = <<>> THEN <<>>
    ELSE <<ToLowerCase(Head(a))>> \o LowerEach(Tail(a))

\* validkeys.split(',').map(k => k.toLowerCase())
parseKeysLegacy(keys) == LowerEach(Split(keys.v))

\* country && validKeysArray.includes(country) ? country : defaultkey
ResolveKeyLegacy(country, validKeysArray, defaultkey) ==
    IF Truthy(country) /\ Includes(validKeysArray, country.v)
    THEN [branch |-> "allowed", key |-> country.v]
    ELSE [branch |-> "default", key |-> defaultkey]

UserInputHandlerLegacy(q, lib) ==
    IF q.defaultkey.t = "object" THEN Thrown(NoLoc)
    ELSE
    LET defaultkey == NormalizeDefaultKeyLegacy(q.defaultkey, Garbage)
        l0 == [NoLoc EXCEPT !.defaultkey = Str(defaultkey)]
    IN  IF ~Truthy(q.input) \/ ~Truthy(q.validkeys)
        THEN Json(400, MissingInputOrValidKeys, l0)
        \* input.replace is not a function on an array
        ELSE IF q.input.t # "string" THEN Thrown(l0)
        ELSE
        LET stripped == Trim(ReplaceFirst(q.input.v, WhatsappPrefix))
            rawNumber == IF StartsWith(stripped, <<"+">>) THEN stripped
                         ELSE <<"+">> \o stripped
            country == ResolveCountryLegacy(rawNumber, lib)
            l1 == [l0 EXCEPT !.rawNumber = rawNumber, !.country = country,
                             !.steps = {"parsePhoneNumber"}]
        IN  \* validkeys.split is not a function on an array
            IF q.validkeys.t # "string" THEN Thrown(l1)
            ELSE
            LET validKeysArray == parseKeysLegacy(q.validkeys)
                resolved == ResolveKeyLegacy(country, validKeysArray,
                                             defaultkey)
            IN  Json(200, resolved.key,
                     [l1 EXCEPT !.validKeysArray = validKeysArray,
                                !.branch = resolved.branch,
                                !.steps = {"parsePhoneNumber", "parseKeys",
                                           "resolveKey"}])

(***************************************************************************)
(* GET /resolve/number/whitelist (src/api/index.js).                       *)
(***************************************************************************)
\* the character class [\s\-\\()]
StrippedChars == WhiteSpace \cup {"-", "\\", "(", ")"}

\* String.prototype.replaceAll(/[\s\-\\()]/g, "")
RECURSIVE RemoveStripped(_)
RemoveStripped(s) ==
    IF s = <<>> THEN <<>>
    ELSE IF Head(s) \in StrippedChars THEN RemoveStripped(Tail(s))
    ELSE <<Head(s)>> \o RemoveStripped(Tail(s))

\* normalizeNumber without the startsWith step: no "+" is prepended
normalizeNumberNoPlus(num) ==
    IF num = <<>> THEN Null
    ELSE LET normalized == Trim(RemoveStripped(num))
         IN  IF normalized = <<>> THEN Null ELSE Str(normalized)

\* normalizeNumber of a string: null, or the normalized string
normalizeNumber(num) ==
    IF num = <<>> THEN Null
    ELSE LET normalized == Trim(RemoveStripped(num))
         IN  IF normalized = <<>> THEN Null
             ELSE IF StartsWith(normalized, <<"+">>) THEN Str(normalized)
             ELSE Str(<<"+">> \o normalized)

\* .map((n) => normalizeNumber(n)).filter((n) => n !== null)
RECURSIVE NormalizeEach(_)
NormalizeEach(a) ==
    IF a = <<>> THEN <<>>
    ELSE LET n == normalizeNumber(Head(a))
         IN  IF n = Null THEN NormalizeEach(Tail(a))
             ELSE <<n.v>> \o NormalizeEach(Tail(a))

\* allowednumbers.split(",").map(normalizeNumber).filter(n => n !== null)
ParseAllowedNumbers(allowednumbers) == NormalizeEach(Split(allowednumbers))

\* WhitelistMessage with the branches of the conditional exchanged
WhitelistMessageSwapped(isAllowed, defaultkey) ==
    IF isAllowed THEN defaultkey ELSE AllowedMarker

\* message: isAllowed ? "@llowed" : defaultkey
WhitelistMessage(isAllowed, defaultkey) ==
    IF isAllowed THEN AllowedMarker ELSE defaultkey

WhitelistHandler(q) ==
    IF q.defaultkey.t = "object" THEN Thrown(NoLoc)
    ELSE
    LET defaultkey == NormalizeDefaultKey(q.defaultkey, BlockedMarker)
        l0 == [NoLoc EXCEPT !.defaultkey = Str(defaultkey)]
    IN  IF ~Truthy(q.input) \/ q.input.t # "string" \/ Trim(q.input.v) = <<>>
        THEN Json(400, MissingInput, l0)
        ELSE IF ~Truthy(q.allowednumbers) \/ q.allowednumbers.t # "string"
                \/ Trim(q.allowednumbers.v) = <<>>
        THEN Json(400, MissingAllowedNumbers, l0)
        ELSE
        LET inputNormalized == normalizeNumber(q.input.v)
            l1 == [l0 EXCEPT !.inputNormalized = inputNormalized,
                             !.steps = {"normalizeNumber"}]
        IN  IF inputNormalized = Null
            THEN Json(400, EmptyAfterNormalization, l1)
            ELSE
            LET allowedArray == ParseAllowedNumbers(q.allowednumbers.v)
                l2 == [l1 EXCEPT !.allowedArray = allowedArray]
            IN  IF Len(allowedArray) = 0
                THEN Json(400, NoValidNumbers, l2)
                ELSE
                LET isAllowed == Includes(allowedArray, inputNormalized.v)
                IN  Json(200, WhitelistMessage(isAllowed, defaultkey),
                         [l2 EXCEPT !.isAllowed = isAllowed,
                                    !.steps = {"normalizeNumber",
                                               "includes"}])

(***************************************************************************)
(* GET /health and GET / (src/api/index.js).                               *)
(***************************************************************************)
HealthHandler == Json(200, ServiceIsRunning, NoLoc)

RootHandler == Json(200, CountryServiceAPI, NoLoc)

(***************************************************************************)
(* The requests of the model.                                              *)
(***************************************************************************)
RECURSIVE JoinComma(_)
JoinComma(l) ==
    IF Len(l) = 1 THEN l[1] ELSE l[1] \o <<",">> \o JoinComma(Tail(l))

\* segments of a key list: empty, exact, upper case, padded
Segments == {<<>>, <<"u", "s">>, <<"U", "S">>, <<" ", "c", "a">>}

KeyStrings ==
    {JoinComma(l) : l \in UNION {[1..k -> Segments] : k \in 1..MaxSegs}}

KeyValues == {Undefined, Arr} \cup {Str(s) : s \in KeyStrings}

\* "notanumber"
NotANumber == <<"n", "o", "t", "a", "n", "u", "m", "b", "e", "r">>

InputValues ==
    {Undefined, Arr, Str(<<>>), Str(<<" ">>), Str(NotANumber),
     Str(<<" ">> \o PlainUsNumber)}

InputValuesLegacy ==
    InputValues \cup {Str(WhatsappPrefix \o PlainPkNumber)}

DefaultKeyValues ==
    {Undefined, Arr, Str(<<" ">>), Str(<<"X", "X">>), Str(<<" ", "X", "x">>)}

\* what the library may answer for the number of a request
LibOutcomes ==
    {NotParsed,
     PhoneNumber(FALSE, Str(<<"U", "S">>)),
     PhoneNumber(TRUE, Undefined),
     PhoneNumber(TRUE, Str(<<"U", "S">>)),
     PhoneNumber(TRUE, Str(<<"C", "A">>))}

LibAnswers(input) ==
    IF input.t = "string" /\ HasDigit(input.v) THEN LibOutcomes
    ELSE {NotParsed}

RECURSIVE StringsUpTo(_, _)
StringsUpTo(alphabet, n) ==
    IF n = 0 THEN {<<>>}
    ELSE LET shorter == StringsUpTo(alphabet, n - 1)
         IN  shorter \cup {Append(s, c) : s \in shorter, c \in alphabet}

NumberAlphabet == {"+", "1", "2", "-"}

NumberStrings ==
    StringsUpTo(NumberAlphabet, MaxNumLen)
        \cup {FormattedUsNumber, PlainUsNumber, <<" ">>, <<"(", ")">>,
              <<"1", "\\", "\t", "2">>}

NumberValues == {Undefined, Arr} \cup {Str(s) : s \in NumberStrings}

ListEntries ==
    {<<>>, <<"1">>, <<"(", ")">>, PlainPkNumber, <<"+">> \o PlainUsNumber}

AllowedNumbersStrings ==
    NumberStrings
        \cup {JoinComma(l) :
                l \in UNION {[1..k -> ListEntries] : k \in 2..MaxNums}}

AllowedNumbersValues ==
    {Undefined, Arr} \cup {Str(s) : s \in AllowedNumbersStrings}

WhitelistDefaultKeyValues == DefaultKeyValues \cup {Str(AllowedMarker)}

Query(input, validkeys, notallowedkeys, defaultkey, allowednumbers) ==
    [input |-> input, validkeys |-> validkeys,
     notallowedkeys |-> notallowedkeys, defaultkey |-> defaultkey,
     allowednumbers |-> allowednumbers]

NoQuery == Query(Undefined, Undefined, Undefined, Undefined, Undefined)

(***************************************************************************)
(* The state machine.  A request arrives (Init draws it, with what the     *)
(* library answers for its number); the route's handler runs once, from    *)
(* its first line to its response.  Requests are independent: nothing is   *)
(* kept from one to the next.                                              *)
(***************************************************************************)
Request(app, path, q, lib) ==
    [app |-> app, path |-> path, query |-> q, lib |-> lib]

\* a request to /resolve/user/input of the application app
UserInputRequest(app) ==
    \E input \in InputValues, validkeys \in KeyValues,
       notallowedkeys \in KeyValues, defaultkey \in DefaultKeyValues :
        \E lib \in LibAnswers(input) :
            req = Request(app, "/resolve/user/input",
                          Query(input, validkeys, notallowedkeys, defaultkey,
                                Undefined),
                          lib)

\* the older application reads no notallowedkeys
UserInputRequestLegacy ==
    \E input \in InputValuesLegacy, validkeys \in KeyValues,
       notallowedkeys \in {Undefined, Str(<<"u", "s">>)},
       defaultkey \in DefaultKeyValues :
        \E lib \in LibAnswers(input) :
            req = Request("legacy", "/resolve/user/input",
                          Query(input, validkeys, notallowedkeys, defaultkey,
                                Undefined),
                          lib)

WhitelistRequest ==
    \E input \in NumberValues, allowednumbers \in AllowedNumbersValues,
       defaultkey \in WhitelistDefaultKeyValues :
        req = Request("index", "/resolve/number/whitelist",
                      Query(input, Undefined, Undefined, defaultkey,
                            allowednumbers),
                      NotParsed)

NoResponse == [status |-> 0, sent |-> 0, message |-> <<>>]

Init ==
    /\ \/ UserInputRequest("index")
       \/ UserInputRequest("copy")
       \/ UserInputRequestLegacy
       \/ WhitelistRequest
       \/ req = Request("index", "/health", NoQuery, NotParsed)
       \/ req = Request("index", "/", NoQuery, NotParsed)
    /\ res = NoResponse
    /\ loc = NoLoc

Pending(app, path) == req.app = app /\ req.path = path /\ res.sent = 0

Respond(out) ==
    /\ res' = out.res
    /\ loc' = out.loc
    /\ UNCHANGED req

\* src/api/index.js
ResolveUserInput ==
    /\ Pending("index", "/resolve/user/input")
    /\ Respond(UserInputHandler(req.query, req.lib, BlockedMarker))

\* src/unnamed/part_002, first application
ResolveUserInputCopy ==
    /\ Pending("copy", "/resolve/user/input")
    /\ Respond(UserInputHandler(req.query, req.lib, BlockedMarkerCopy))

\* src/unnamed/part_002, second (older) application
ResolveUserInputLegacy ==
    /\ Pending("legacy", "/resolve/user/input")
    /\ Respond(UserInputHandlerLegacy(req.query, req.lib))

ResolveNumberWhitelist ==
    /\ Pending("index", "/resolve/number/whitelist")
    /\ Respond(WhitelistHandler(req.query))

Health ==
    /\ Pending("index", "/health")
    /\ Respond(HealthHandler)

Root ==
    /\ Pending("index", "/")
    /\ Respond(RootHandler)

Next ==
    \/ ResolveUserInput
    \/ ResolveUserInputCopy
    \/ ResolveUserInputLegacy
    \/ ResolveNumberWhitelist
    \/ Health
    \/ Root

Spec == Init /\ [][Next]_vars

(***************************************************************************)
(* Vocabulary of the properties.  The reference notions below are written  *)
(* from the request alone, with the string primitives and SelectSeq, not   *)
(* with the handlers' helpers.                                             *)
(***************************************************************************)
Done == res.sent > 0

UserInputDone(apps) ==
    Done /\ req.path = "/resolve/user/input" /\ req.app \in apps

WhitelistDone == Done /\ req.path = "/resolve/number/whitelist"

Blank(x) == x.t # "string" \/ Trim(x.v) = <<>>

\* the request gets through the validation of its handler: no exception is
\* raised before it, and neither check rejects the request
PassesUserInputValidation ==
    /\ req.query.defaultkey.t # "object"
    /\ IF req.app = "legacy"
       THEN Truthy(req.query.input) /\ Truthy(req.query.validkeys)
       ELSE /\ ~Blank(req.query.input)
            /\ Truthy(req.query.validkeys) \/ Truthy(req.query.notallowedkeys)

PassesWhitelistValidation ==
    /\ req.query.defaultkey.t # "object"
    /\ ~Blank(req.query.input)
    /\ ~Blank(req.query.allowednumbers)

\* the library parsed the input to a valid number that has a region
HasCountry ==
    req.lib.parsed /\ req.lib.valid /\ req.lib.country.t = "string"

\* the lowercase country code of that number
Country == ToLowerCase(req.lib.country.v)

\* the key sets as the application that handles the request parses them
ParsedValidKeys ==
    IF req.app = "legacy"
    THEN IF req.query.validkeys.t = "string"
         THEN parseKeysLegacy(req.query.validkeys)
         ELSE <<>>
    ELSE parseKeys(req.query.validkeys)

ParsedNotAllowedKeys ==
    IF req.app = "legacy" THEN <<>> ELSE parseKeys(req.query.notallowedkeys)

BlockedMarkerOf(app) == IF app = "copy" THEN BlockedMarkerCopy ELSE BlockedMarker

IsKeySegment(k) == ToLowerCase(Trim(k)) # <<>>

\* split on ",", trim and lowercase each segment, drop the empty ones
ReferenceKeys(x) ==
    IF x.t # "string" THEN <<>>
    ELSE LET kept == SelectSeq(Split(x.v), IsKeySegment)
         IN  [i \in 1..Len(kept) |-> ToLowerCase(Trim(kept[i]))]

IsKept(c) == c \notin {" ", "\t", "\n", "-", "\\", "(", ")"}

\* whitespace, hyphens, backslashes and parentheses removed, then "+"
\* prepended when missing; <<>> when nothing is left to normalize
NormalForm(s) ==
    LET kept == SelectSeq(s, IsKept)
    IN  IF kept = <<>> THEN <<>>
        ELSE IF kept[1] = "+" THEN kept
        ELSE <<"+">> \o kept

HasComma(s) == \E i \in 1..Len(s) : s[i] = ","

\* the normalized input is a member of the normalized allowednumbers set
IsMember ==
    /\ req.query.input.t = "string"
    /\ req.query.allowednumbers.t = "string"
    /\ NormalForm(req.query.input.v) # <<>>
    /\ LET entries == Split(req.query.allowednumbers.v)
       IN  \E i \in 1..Len(entries) :
               NormalForm(entries[i]) = NormalForm(req.query.input.v)

\* the allowednumbers value yields no entry after splitting and normalizing
NoAllowedEntries ==
    \/ Blank(req.query.allowednumbers)
    \/ LET entries == Split(req.query.allowednumbers.v)
       IN  \A i \in 1..Len(entries) : NormalForm(entries[i]) = <<>>

\* the default key as the handler of src/api/index.js uses it
SuppliedDefaultKey(fallback) ==
    IF req.query.defaultkey.t = "string"
       /\ ToLowerCase(Trim(req.query.defaultkey.v)) # <<>>
    THEN ToLowerCase(Trim(req.query.defaultkey.v))
    ELSE fallback

\* the steps that resolve a request, as opposed to validating it
Resolution == {"parsePhoneNumber", "parseKeys", "resolveKey", "includes"}

(***************************************************************************)
(* C1: on the applications with a deny list, a validated request whose     *)
(* number has country c with c in the parsed notallowedkeys is answered    *)
(* 200 with the blocked marker, whether or not c is in the parsed          *)
(* validkeys too.                                                          *)
(***************************************************************************)
C1_DenyBeforeAllow ==
    (/\ UserInputDone({"index", "copy"})
     /\ PassesUserInputValidation
     /\ HasCountry
     /\ Includes(ParsedNotAllowedKeys, Country))
    => /\ res.status = 200
       /\ res.message = BlockedMarkerOf(req.app)
       /\ loc.branch = "blocked"

\* a country in both lists, answered with the blocked marker
C1_Witness ==
    /\ UserInputDone({"index"})
    /\ PassesUserInputValidation
    /\ HasCountry
    /\ Includes(ParsedNotAllowedKeys, Country)
    /\ Includes(ParsedValidKeys, Country)
    /\ res.message = BlockedMarker

(***************************************************************************)
(* C2: a validated request whose number has country c, with c in the       *)
(* parsed validkeys and not in the parsed notallowedkeys, is answered 200  *)
(* with c itself, through the allowed branch (not the default branch, not  *)
(* the blocked marker).                                                    *)
(***************************************************************************)
C2_AllowedCountryReturned ==
    (/\ UserInputDone({"index", "copy", "legacy"})
     /\ PassesUserInputValidation
     /\ HasCountry
     /\ Includes(ParsedValidKeys, Country)
     /\ ~Includes(ParsedNotAllowedKeys, Country))
    => /\ res.status = 200
       /\ res.message = Country
       /\ loc.branch = "allowed"
       /\ res.message # BlockedMarkerOf(req.app)

\* "US, ca" and a Canadian number: the answer is "ca"
C2_Witness ==
    /\ UserInputDone({"index"})
    /\ req.query.validkeys = Str(<<"U", "S", ",", " ", "c", "a">>)
    /\ req.query.notallowedkeys = Str(<<"u", "s">>)
    /\ HasCountry
    /\ res.status = 200
    /\ res.message = <<"c", "a">>

(***************************************************************************)
(* C3, as stated: a validated request whose input is not a valid number,   *)
(* or whose country is in neither set, is answered 200 with the defaultkey *)
(* the caller supplied, or "garbage" when none (or a blank one) was        *)
(* supplied.                                                               *)
(***************************************************************************)
C3_DefaultKeyVerbatim ==
    (/\ UserInputDone({"index", "copy"})
     /\ PassesUserInputValidation
     /\ \/ ~HasCountry
        \/ /\ ~Includes(ParsedValidKeys, Country)
           /\ ~Includes(ParsedNotAllowedKeys, Country))
    => /\ res.status = 200
       /\ res.message = IF ~Blank(req.query.defaultkey)
                        THEN req.query.defaultkey.v
                        ELSE Garbage

(***************************************************************************)
(* C3, amended: the message is the supplied defaultkey trimmed and         *)
(* lowercased, or "garbage" when no defaultkey was supplied or it is blank *)
(* after trimming; a parse failure is answered 200, never as an error.     *)
(***************************************************************************)
C3_DefaultKeyNormalized ==
    (/\ UserInputDone({"index", "copy"})
     /\ PassesUserInputValidation
     /\ \/ ~HasCountry
        \/ /\ ~Includes(ParsedValidKeys, Country)
           /\ ~Includes(ParsedNotAllowedKeys, Country))
    => /\ res.status = 200
       /\ res.message = SuppliedDefaultKey(Garbage)
       /\ loc.branch = "default"

\* "notanumber" with defaultkey " Xx": the answer is "xx"
C3_Witness ==
    /\ UserInputDone({"index"})
    /\ req.query.input = Str(NotANumber)
    /\ req.query.defaultkey = Str(<<" ", "X", "x">>)
    /\ res.status = 200
    /\ res.message = <<"x", "x">>

C4_WitnessConverse ==
    /\ WhitelistDone
    /\ req.query.input = Str(FormattedUsNumber)
    /\ req.query.allowednumbers = Str(PlainUsNumber)
    /\ req.query.defaultkey = Undefined
    /\ res.status = 200
    /\ res.message = AllowedMarker

(***************************************************************************)
(* C5: on every /resolve/user/input and on /resolve/number/whitelist, a    *)
(* request whose input is absent, not a string or blank is answered 400    *)
(* "Missing required field: input", whatever the other parameters, and     *)
(* nothing is resolved.                                                    *)
(***************************************************************************)
C5_MissingInputRejected ==
    (/\ UserInputDone({"index", "copy", "legacy"}) \/ WhitelistDone
     /\ Blank(req.query.input))
    => /\ res.status = 400
       /\ res.message = MissingInput
       /\ loc.steps \cap Resolution = {}

(***************************************************************************)
(* C6: the key resolver never runs with the allowed set and the blocked    *)
(* set both empty.                                                         *)
(***************************************************************************)
C6_NeverResolvesWithBothSetsEmpty ==
    (/\ UserInputDone({"index", "copy"})
     /\ "resolveKey" \in loc.steps)
    => ~(loc.validKeysArray = <<>> /\ loc.notAllowedArray = <<>>)

(***************************************************************************)
(* C7, as stated: the message of a 200 from the whitelist is the allowed   *)
(* marker exactly when the normalized input is a member of the normalized  *)
(* allowednumbers; otherwise it is the defaultkey the caller supplied, or  *)
(* the blocked marker when none (or a blank one) was supplied.             *)
(***************************************************************************)
C7_AllowedMarkerIffMember ==
    (WhitelistDone /\ res.status = 200)
    => /\ res.message = AllowedMarker <=> IsMember
       /\ ~IsMember =>
            res.message = IF ~Blank(req.query.defaultkey)
                          THEN req.query.defaultkey.v
                          ELSE BlockedMarker

(***************************************************************************)
(* C7, amended: a member is answered with the allowed marker; a number     *)
(* that is not a member is answered with the defaultkey trimmed and        *)
(* lowercased, or with the blocked marker when no defaultkey was supplied  *)
(* or it is blank.  The allowed marker is the answer for a number that is  *)
(* not a member only when that default key is itself the allowed marker.   *)
(***************************************************************************)
C7_MemberOrNormalizedDefault ==
    /\ (WhitelistDone /\ PassesWhitelistValidation /\ IsMember)
        => res.status = 200 /\ res.message = AllowedMarker
    /\ (WhitelistDone /\ res.status = 200)
        => /\ IsMember => res.message = AllowedMarker
           /\ ~IsMember => res.message = SuppliedDefaultKey(BlockedMarker)
           /\ res.message = AllowedMarker =>
                IsMember \/ SuppliedDefaultKey(BlockedMarker) = AllowedMarker

\* a number outside the list with defaultkey " Xx": the answer is "xx"
C7_Witness ==
    /\ WhitelistDone
    /\ res.status = 200
    /\ ~IsMember
    /\ req.query.defaultkey = Str(<<" ", "X", "x">>)
    /\ res.message = <<"x", "x">>

(***************************************************************************)
(* C8: a whitelist request whose allowednumbers is absent, blank or yields *)
(* no entry after splitting and normalizing is answered 400 and no         *)
(* membership check is made.                                               *)
(***************************************************************************)
C8_EmptyWhitelistRejected ==
    (WhitelistDone /\ NoAllowedEntries)
    => res.status = 400 /\ "includes" \notin loc.steps

\* the part of C8 that the exception of C9 does not reach: a 200 is only
\* produced with a non-empty normalized allowed set
C8_OkOnlyWithEntries ==
    (WhitelistDone /\ res.status = 200)
    => ~NoAllowedEntries /\ Len(loc.allowedArray) > 0

(***************************************************************************)
(* C9: every request to /resolve/user/input or /resolve/number/whitelist   *)
(* ends with exactly one response, 200 with one message or 400 with a      *)
(* message, and a 400 is decided before anything is resolved.              *)
(***************************************************************************)
C9_OneResponse200Or400 ==
    (UserInputDone({"index", "copy", "legacy"}) \/ WhitelistDone)
    => /\ res.sent = 1
       /\ res.status \in {200, 400}
       /\ res.message # <<>>
       /\ res.status = 400 => loc.steps \cap Resolution = {}

(***************************************************************************)
(* C10: on every /resolve/user/input, the key arrays of an answered        *)
(* request are the segments of the value split on ",", trimmed and         *)
(* lowercased, without the empty ones; absent or non-string gives the      *)
(* empty array.                                                            *)
(***************************************************************************)
C10_KeysSplitTrimmedLowercased ==
    (/\ UserInputDone({"index", "copy", "legacy"})
     /\ res.status = 200)
    => /\ loc.validKeysArray = ReferenceKeys(req.query.validkeys)
       /\ req.app # "legacy" =>
            loc.notAllowedArray = ReferenceKeys(req.query.notallowedkeys)

\* the same statement for the two applications that share parseKeys
C10_KeysOfParseKeys ==
    (/\ UserInputDone({"index", "copy"})
     /\ res.status = 200)
    => /\ loc.validKeysArray = ReferenceKeys(req.query.validkeys)
       /\ loc.notAllowedArray = ReferenceKeys(req.query.notallowedkeys)

====
